---------------------------- MODULE Spec2Model ----------------------------
(***************************************************************************)
(* Model of the zen modal editor (src/src/main.rs): the TextEditor event   *)
(* loop `run`, its Buffer, the cursor/scroll arithmetic of `bounds`, the   *)
(* Normal/Insert key maps and the undo stack.                              *)
(*                                                                         *)
(* A line is a sequence of one-character strings; the buffer a sequence of *)
(* lines.  Indices of the source are 0-based; sequences here are 1-based,  *)
(* so element i of the source is element i + 1 of the model.  An           *)
(* Option<T> is a sequence of length at most one: <<>> is None, <<v>> is   *)
(* Some(v).  Rendering (draw, statusline) changes no editor field and is   *)
(* not modelled.  The terminal size is the one read by TextEditor::new:    *)
(* Resize events are not modelled, nor are the keys that resolve to no     *)
(* action.  `run` is modelled as its loop: `Bounds` is self.bounds() at    *)
(* the top of a pass, and one Key action is the rest of the pass, from     *)
(* read() to the end of the arm the key resolves to.                       *)
(***************************************************************************)
EXTENDS Integers, Sequences, FiniteSets, TLC

\* ------------------------------------------------------------- bounds
\* Largest number of editing steps (steps that change the buffer or the undo
\* stack) a session is let to make.
MaxEdits == 3
\* Largest scroll offset a session is let to reach.
MaxScroll == 3

\* Characters a key press can carry in Insert mode.
Chars == {"x"}

\* Contents of the file the session is started on (Buffer::new); the first is
\* the unreadable or missing file.
Files ==
  { <<>>,
    << <<"a", "b">> >>,
    << <<"a", "b">>, <<"c">> >> }

\* Terminal sizes (columns, rows) reported by terminal::size().
Sizes == { <<80, rows>> : rows \in 2..3 }

\* ------------------------------------------------------------- state
VARIABLES
  editor,           \* the TextEditor struct: lines (buffer.lines), size, cx,
                    \* cy, mode, sv, command_wait, undo
  pc,               \* position of `run`: "bounds", "read", "quit", "panicked"
  act,              \* `action` of the loop body: the Action being applied in
                    \* this pass ("None" until handle_event has returned one)
  edits,            \* editing steps made so far
  overflow_checks   \* the build: TRUE panics on integer overflow (debug),
                    \* FALSE wraps (release)

vars == <<editor, pc, act, edits, overflow_checks>>

\* ------------------------------------------------------------- integers
U16 == 2 ^ 16

\* The value a u16 expression takes when overflow wraps.
Wrap(n) == n % U16

\* Whether a u16 expression of mathematical value n overflows.
Overflows(n) == n < 0 \/ n >= U16

Min(a, b) == IF a < b THEN a ELSE b

\* ------------------------------------------------------------- Vec, String
\* Vec::insert / String::insert at 0-based index i (the caller has i <= Len).
InsertAt(s, i, v) == SubSeq(s, 1, i) \o <<v>> \o SubSeq(s, i + 1, Len(s))

\* Vec::remove / String::remove at 0-based index i (the caller has i < Len).
RemoveAt(s, i) == SubSeq(s, 1, i) \o SubSeq(s, i + 2, Len(s))

\* ------------------------------------------------------------- Buffer
\* Buffer::get: Some(line) when lines.len() >= line + 1, else None.
get(lines, line) ==
  IF Len(lines) >= line + 1 THEN <<lines[line + 1]>> ELSE <<>>

\* Buffer::insert without the resize that appends a line.
insert_NoResize(lines, x, y, c) ==
  IF y < Len(lines)
    THEN IF x > Len(lines[y + 1])
           THEN [lines |-> lines, panic |-> TRUE]
           ELSE [lines |-> [lines EXCEPT ![y + 1] = InsertAt(@, x, c)],
                 panic |-> FALSE]
    ELSE [lines |-> lines, panic |-> FALSE]

\* Buffer::insert.  resize appends one empty line when y is the line count;
\* String::insert panics when x is past the end of the line.
insert(lines, x, y, c) ==
  LET grown == IF Len(lines) = y THEN Append(lines, <<>>) ELSE lines
  IN  IF y < Len(grown)
        THEN IF x > Len(grown[y + 1])
               THEN [lines |-> grown, panic |-> TRUE]
               ELSE [lines |-> [grown EXCEPT ![y + 1] = InsertAt(@, x, c)],
                     panic |-> FALSE]
        ELSE [lines |-> grown, panic |-> FALSE]

\* Buffer::insert_line.  Vec::insert panics when index is past the end.
insert_line(lines, index, content) ==
  IF index > Len(lines)
    THEN [lines |-> lines, panic |-> TRUE]
    ELSE [lines |-> InsertAt(lines, index, content), panic |-> FALSE]

\* Buffer::remove.  String::remove panics when x is not inside the line.
remove(lines, x, y) ==
  IF y < Len(lines)
    THEN IF x >= Len(lines[y + 1])
           THEN [lines |-> lines, panic |-> TRUE]
           ELSE [lines |-> [lines EXCEPT ![y + 1] = RemoveAt(@, x)],
                 panic |-> FALSE]
    ELSE [lines |-> lines, panic |-> FALSE]

\* ------------------------------------------------------------- results
\* What a step of `run` leaves: the editor, and whether it panicked.
Ok(e) == [ed |-> e, panic |-> FALSE]
Panic(e) == [ed |-> e, panic |-> TRUE]

\* A step whose u16 arithmetic overflowed: a panic in a build with overflow
\* checks, the wrapped values otherwise.
Checked(ovf, before, after) ==
  IF ovf /\ overflow_checks THEN Panic(before) ELSE Ok(after)

\* Undo payloads: Action::InsertChar(x, y, c) and Action::InsertLine(line, s).
InsertChar(x, y, c) == [kind |-> "InsertChar", x |-> x, y |-> y, c |-> c]
InsertLine(line, content) ==
  [kind |-> "InsertLine", line |-> line, content |-> content]

\* ------------------------------------------------------------- TextEditor
\* TextEditor::new.
new(buffer, size) ==
  [lines |-> buffer, cx |-> 0, cy |-> 0, mode |-> "Normal", size |-> size,
   sv |-> 0, command_wait |-> <<>>, undo |-> <<>>]

\* TextEditor::current_line_len.
current_line_len(e) ==
  LET l == get(e.lines, e.cy + e.sv)
  IN  IF l = <<>> THEN 0 ELSE Len(l[1])

\* bounds without the column clamp.
bounds_NoColumnClamp(e) ==
  LET len == Len(e.lines)
  IN  IF e.sv + e.cy >= len
        THEN LET n == IF len > 0
                        THEN Wrap(len) - Wrap(e.sv) - 1
                        ELSE Wrap(len) - Wrap(e.sv)
             IN  Checked(Overflows(n), e, [e EXCEPT !.cy = Wrap(n)])
        ELSE Ok(e)

\* TextEditor::bounds.
bounds(e) ==
  LET e1 == [e EXCEPT !.cx = Min(e.cx, current_line_len(e))]
      len == Len(e.lines)
  IN  IF e.sv + e.cy >= len
        THEN LET n == IF len > 0
                        THEN Wrap(len) - Wrap(e.sv) - 1
                        ELSE Wrap(len) - Wrap(e.sv)
             IN  Checked(Overflows(n), e1, [e1 EXCEPT !.cy = Wrap(n)])
        ELSE Ok(e1)

\* ------------------------------------------------------------- run: arms
\* Each arm of the match in TextEditor::run, as the step it makes from
\* editor e.  The editor of a panicked step is the one before the step: the
\* process is gone and nothing reads it.

\* MoveUp that scrolls whenever it can, also when the cursor moves.
MoveUp_AlwaysScroll(e) ==
  LET sv1 == IF e.sv > 0 THEN e.sv - 1 ELSE e.sv
  IN  Ok([e EXCEPT !.sv = sv1, !.cy = IF e.cy >= 1 THEN e.cy - 1 ELSE 0])

\* Action::MoveUp.
MoveUp(e) ==
  IF e.cy = 0
    THEN IF e.sv > 0 THEN Ok([e EXCEPT !.sv = e.sv - 1]) ELSE Ok(e)
    ELSE Ok([e EXCEPT !.cy = IF e.cy >= 1 THEN e.cy - 1 ELSE 0])

\* Action::MoveDown.
MoveDown(e) ==
  LET sum == e.cy + Wrap(e.sv)
      cy1 == IF Wrap(Len(e.lines)) > Wrap(sum) THEN e.cy + 1 ELSE e.cy
      last == e.size[2] - 1
      scroll == Wrap(cy1) >= Wrap(last)
      cy2 == IF scroll THEN Wrap(cy1) - 1 ELSE Wrap(cy1)
  IN  Checked(Overflows(sum) \/ Overflows(cy1) \/ Overflows(last)
                \/ Overflows(cy2),
              e,
              [e EXCEPT !.cy = Wrap(cy2),
                        !.sv = IF scroll THEN e.sv + 1 ELSE e.sv])

\* Action::MoveLeft.
MoveLeft(e) == Ok([e EXCEPT !.cx = IF e.cx >= 1 THEN e.cx - 1 ELSE 0])

\* Action::MoveRight.
MoveRight(e) ==
  Checked(Overflows(e.cx + 1), e, [e EXCEPT !.cx = Wrap(e.cx + 1)])

\* Action::PageUp.
PageUp(e) == Ok([e EXCEPT !.cy = 0])

\* PageDown that scrolls the window by a page.
PageDown_Scroll(e) ==
  Checked(Overflows(e.sv + e.size[2] - 2), e,
          [e EXCEPT !.sv = Wrap(e.sv + e.size[2] - 2)])

\* Action::PageDown.
PageDown(e) ==
  Checked(Overflows(e.size[2] - 2), e, [e EXCEPT !.cy = Wrap(e.size[2] - 2)])

\* Action::EnterMode(mode).
EnterMode(e, mode) == Ok([e EXCEPT !.mode = mode])

\* Action::MoveHome.
MoveHome(e) == Ok([e EXCEPT !.cx = 0])

\* Action::MoveEnd.
MoveEnd(e) == Ok([e EXCEPT !.cx = current_line_len(e)])

\* Insert that addresses the line by the viewport row.
Insert_RelativeRow(e, c) ==
  LET b == insert(e.lines, e.cx, e.cy, c)
  IN  IF b.panic THEN Panic(e)
      ELSE Checked(Overflows(e.cx + 1), e,
                   [e EXCEPT !.lines = b.lines, !.cx = Wrap(e.cx + 1)])

\* Action::Insert(c).
Insert(e, c) ==
  LET y == e.cy + Wrap(e.sv)
      b == insert(e.lines, e.cx, Wrap(y), c)
  IN  IF Overflows(y) /\ overflow_checks THEN Panic(e)
      ELSE IF b.panic THEN Panic(e)
      ELSE Checked(Overflows(e.cx + 1), e,
                   [e EXCEPT !.lines = b.lines, !.cx = Wrap(e.cx + 1)])

\* Action::InsertLineBelow.  Vec::insert panics when line is past the end;
\* `line as u16` truncates.
InsertLineBelow(e) ==
  LET line == e.cy + e.sv + 1
  IN  IF line > Len(e.lines) THEN Panic(e)
      ELSE Ok([e EXCEPT !.lines = InsertAt(e.lines, line, <<>>),
                        !.cy = Wrap(line)])

\* Action::InsertLineAbove.
InsertLineAbove(e) ==
  LET line == e.cy + e.sv
  IN  IF line > Len(e.lines) THEN Panic(e)
      ELSE Ok([e EXCEPT !.lines = InsertAt(e.lines, line, <<>>)])

\* DeleteChar that records the viewport row in place of the buffer line.
DeleteChar_RelativeRow(e) ==
  LET line == Wrap(e.cy + Wrap(e.sv))
      line_str == get(e.lines, line)
  IN  IF line_str = <<>> THEN Panic(e)
      ELSE IF Len(line_str[1]) > 0
        THEN IF e.cx >= Len(line_str[1]) THEN Panic(e)
             ELSE Ok([e EXCEPT
                        !.lines = remove(e.lines, e.cx, line).lines,
                        !.undo = Append(e.undo,
                                   InsertChar(e.cx, e.cy,
                                              line_str[1][e.cx + 1]))])
        ELSE Ok(e)

\* Action::DeleteChar.  unwrap panics on None: when no line is at the cursor,
\* and when the line has no character at cx.
DeleteChar(e) ==
  LET sum == e.cy + Wrap(e.sv)
      line == Wrap(sum)
      line_str == get(e.lines, line)
  IN  IF Overflows(sum) /\ overflow_checks THEN Panic(e)
      ELSE IF line_str = <<>> THEN Panic(e)
      ELSE IF Len(line_str[1]) > 0
        THEN LET b == remove(e.lines, e.cx, line)
             IN  IF b.panic \/ e.cx >= Len(line_str[1]) THEN Panic(e)
                 ELSE Ok([e EXCEPT
                            !.lines = b.lines,
                            !.undo = Append(e.undo,
                                       InsertChar(e.cx, line,
                                                  line_str[1][e.cx + 1]))])
        ELSE Ok(e)

\* Action::DeleteLine.  The line is fetched, and unwrapped, before
\* command_wait is looked at.
DeleteLine(e) ==
  LET sum == e.cy + Wrap(e.sv)
      line == Wrap(sum)
      line_str == get(e.lines, line)
  IN  IF Overflows(sum) /\ overflow_checks THEN Panic(e)
      ELSE IF line_str = <<>> THEN Panic(e)
      ELSE IF e.command_wait = <<>>
        THEN Ok([e EXCEPT !.command_wait = <<"d">>])
      ELSE IF e.command_wait = <<"d">>
        THEN IF Len(e.lines) > 0
               THEN Ok([e EXCEPT
                          !.lines = RemoveAt(e.lines, line),
                          !.undo = Append(e.undo, InsertLine(line, line_str[1])),
                          !.command_wait = <<>>])
               ELSE Ok(e)
      ELSE Ok(e)

\* Undo that unwraps the popped entry.
Undo_Unwrap(e) ==
  IF e.undo = <<>> THEN Panic(e)
  ELSE LET top == e.undo[Len(e.undo)]
           popped == [e EXCEPT !.undo = SubSeq(e.undo, 1, Len(e.undo) - 1)]
           b == IF top.kind = "InsertLine"
                  THEN insert_line(e.lines, top.line, top.content)
                  ELSE insert(e.lines, top.x, top.y, top.c)
       IN  IF b.panic THEN Panic(e)
           ELSE Ok([popped EXCEPT !.lines = b.lines])

\* Action::Undo.
Undo(e) ==
  IF e.undo = <<>> THEN Ok(e)
  ELSE LET top == e.undo[Len(e.undo)]
           popped == [e EXCEPT !.undo = SubSeq(e.undo, 1, Len(e.undo) - 1)]
           b == IF top.kind = "InsertLine"
                  THEN insert_line(e.lines, top.line, top.content)
                  ELSE insert(e.lines, top.x, top.y, top.c)
       IN  IF b.panic THEN Panic(e)
           ELSE Ok([popped EXCEPT !.lines = b.lines])

\* ------------------------------------------------------------- run: loop
\* The model's cap on the scroll offset, which the program lets grow without
\* limit.
Within(e) == e.sv <= MaxScroll

\* Whether a step from editor e to editor f is an editing step.
Edited(e, f) == e.lines # f.lines \/ e.undo # f.undo

\* One pass of the loop body after the event is read: the arm for the
\* resolved action is applied.
Dispatch(name, r) ==
  /\ pc = "read"
  /\ Within(r.ed)
  /\ editor' = r.ed
  /\ pc' = IF r.panic THEN "panicked" ELSE "bounds"
  /\ act' = name
  /\ edits' = IF Edited(editor, r.ed) THEN edits + 1 ELSE edits
  /\ edits' <= MaxEdits
  /\ UNCHANGED overflow_checks

\* self.bounds() at the top of the loop.
Bounds ==
  /\ pc = "bounds"
  /\ LET r == bounds(editor)
     IN  /\ editor' = r.ed
         /\ pc' = IF r.panic THEN "panicked" ELSE "read"
  /\ act' = "None"
  /\ UNCHANGED <<edits, overflow_checks>>

Normal == editor.mode = "Normal"

\* The key events: KeyCode::Char(c) is the one-character string c, the other
\* key codes are named.  "z" and "Enter" stand for the keys no arm names.
CharKeys == {"q", "i", "b", "f", "0", "$", "d", "x", "u", "o", "O", "z"}
Keys == CharKeys \cup {"Up", "Down", "Left", "Right", "Esc", "Enter"}

\* Action values; arg is the mode of EnterMode and the character of Insert.
Action(name, arg) == [name |-> name, arg |-> arg]

\* handle_normal_event: Some(action) as <<action>>, None as <<>>.
handle_normal_event(k) ==
  CASE k = "q" -> <<Action("Quit", "")>>
    [] k = "Up" -> <<Action("MoveUp", "")>>
    [] k = "Down" -> <<Action("MoveDown", "")>>
    [] k = "Left" -> <<Action("MoveLeft", "")>>
    [] k = "Right" -> <<Action("MoveRight", "")>>
    [] k = "i" -> <<Action("EnterMode", "Insert")>>
    [] k = "b" -> <<Action("PageUp", "")>>
    [] k = "f" -> <<Action("PageDown", "")>>
    [] k = "0" -> <<Action("MoveHome", "")>>
    [] k = "$" -> <<Action("MoveEnd", "")>>
    [] k = "d" -> <<Action("DeleteLine", "")>>
    [] k = "x" -> <<Action("DeleteChar", "")>>
    [] k = "u" -> <<Action("Undo", "")>>
    [] k = "o" -> <<Action("InsertLineBelow", "")>>
    [] k = "O" -> <<Action("InsertLineAbove", "")>>
    [] OTHER -> <<>>

\* handle_insert_event that lets 'q' quit.
handle_insert_event_QuitOnQ(k) ==
  CASE k = "Esc" -> <<Action("EnterMode", "Normal")>>
    [] k = "q" -> <<Action("Quit", "")>>
    [] k \in CharKeys \ {"q"} -> <<Action("Insert", k)>>
    [] OTHER -> <<>>

\* handle_insert_event.
handle_insert_event(k) ==
  CASE k = "Esc" -> <<Action("EnterMode", "Normal")>>
    [] k \in CharKeys -> <<Action("Insert", k)>>
    [] OTHER -> <<>>

\* handle_event: the mode chooses the key map.
handle_event(e, k) ==
  IF e.mode = "Normal" THEN handle_normal_event(k) ELSE handle_insert_event(k)

\* The `match action` of run, Quit apart (it breaks out of the loop).
RunAction(a, e) ==
  CASE a.name = "MoveUp" -> MoveUp(e)
    [] a.name = "MoveDown" -> MoveDown(e)
    [] a.name = "MoveLeft" -> MoveLeft(e)
    [] a.name = "MoveRight" -> MoveRight(e)
    [] a.name = "PageUp" -> PageUp(e)
    [] a.name = "PageDown" -> PageDown(e)
    [] a.name = "EnterMode" -> EnterMode(e, a.arg)
    [] a.name = "MoveHome" -> MoveHome(e)
    [] a.name = "MoveEnd" -> MoveEnd(e)
    [] a.name = "Insert" -> Insert(e, a.arg)
    [] a.name = "InsertLineBelow" -> InsertLineBelow(e)
    [] a.name = "InsertLineAbove" -> InsertLineAbove(e)
    [] a.name = "DeleteChar" -> DeleteChar(e)
    [] a.name = "DeleteLine" -> DeleteLine(e)
    [] a.name = "Undo" -> Undo(e)
    [] OTHER -> Ok(e)

\* The loop body for key k: the event is resolved by handle_event and the
\* action, if any, is run; Quit ends the loop.
Press(k) ==
  LET a == handle_event(editor, k)
  IN  /\ a # <<>>
      /\ IF a[1].name = "Quit"
           THEN /\ pc = "read"
                /\ pc' = "quit"
                /\ act' = "Quit"
                /\ UNCHANGED <<editor, edits, overflow_checks>>
           ELSE Dispatch(a[1].name, RunAction(a[1], editor))

\* The keys of handle_normal_event, one action per mapped key.
KeyQ == Normal /\ Press("q")
KeyUp == Normal /\ Press("Up")
KeyDown == Normal /\ Press("Down")
KeyLeft == Normal /\ Press("Left")
KeyRight == Normal /\ Press("Right")
KeyI == Normal /\ Press("i")
KeyB == Normal /\ Press("b")
KeyF == Normal /\ Press("f")
KeyZero == Normal /\ Press("0")
KeyDollar == Normal /\ Press("$")
KeyD == Normal /\ Press("d")
KeyX == Normal /\ Press("x")
KeyU == Normal /\ Press("u")
KeyO == Normal /\ Press("o")
KeyShiftO == Normal /\ Press("O")

\* The keys of handle_insert_event.
KeyEsc == ~Normal /\ Press("Esc")
KeyChar == ~Normal /\ \E c \in Chars : Press(c)

\* main: the buffer is read, the editor built, and `run` entered.
Init ==
  /\ \E f \in Files, size \in Sizes : editor = new(f, size)
  /\ pc = "bounds"
  /\ act = "None"
  /\ edits = 0
  /\ overflow_checks \in BOOLEAN

Next ==
  \/ Bounds
  \/ KeyQ
  \/ KeyUp
  \/ KeyDown
  \/ KeyLeft
  \/ KeyRight
  \/ KeyI
  \/ KeyB
  \/ KeyF
  \/ KeyZero
  \/ KeyDollar
  \/ KeyD
  \/ KeyX
  \/ KeyU
  \/ KeyO
  \/ KeyShiftO
  \/ KeyEsc
  \/ KeyChar

Spec == Init /\ [][Next]_vars

\* ------------------------------------------------------------- claims
\* The state `run` is in when it blocks in read() with the Normal key map.
AtNormalRead == pc = "read" /\ Normal

\* The absolute buffer line of the cursor, cursor.row + sv.
Abs(e) == e.cy + e.sv

\* A line exists at the cursor.
LineAtCursor(e) == Abs(e) < Len(e.lines)

\* A character exists at the cursor.
CharAtCursor(e) == LineAtCursor(e) /\ e.cx < Len(e.lines[Abs(e) + 1])

\* The entry on top of the undo stack, as an Option.
Top(e) == IF e.undo = <<>> THEN <<>> ELSE <<e.undo[Len(e.undo)]>>

\* C1: deleteCharacter where no character exists at the cursor (no line at
\* cursor.row + sv, or cursor.column not inside the line) is a no-op: the
\* session keeps running and the editor, buffer and undo stack included, is
\* unchanged.
C1_DeleteWithoutCharIsNoOp ==
  [][(pc = "read" /\ ~CharAtCursor(editor) /\ act' = "DeleteChar")
       => (pc' = "bounds" /\ editor'.lines = editor.lines
             /\ editor'.undo = editor.undo)]_vars

\* C2: with the cursor on an existing character, deleteCharacter removes
\* exactly that character and pushes exactly one re-insert-character entry
\* (same column, absolute line, removed character); an immediately following
\* undo restores the buffer and the undo stack.
C2_DeleteCharThenUndo ==
  (AtNormalRead /\ CharAtCursor(editor)) =>
    LET k == Abs(editor)
        ln == editor.lines[k + 1]
        d == DeleteChar(editor)
        b == bounds(d.ed)
        u == Undo(b.ed)
    IN  /\ ~d.panic
        /\ d.ed.lines = [editor.lines EXCEPT ![k + 1] = RemoveAt(ln, editor.cx)]
        /\ d.ed.undo =
             Append(editor.undo, InsertChar(editor.cx, k, ln[editor.cx + 1]))
        /\ ~b.panic
        /\ ~u.panic
        /\ u.ed.lines = editor.lines
        /\ u.ed.undo = editor.undo

\* C2 witness: deleteCharacter has just removed a character and pushed its
\* re-insert-character entry.
C2_Witness ==
  /\ pc = "bounds"
  /\ act = "DeleteChar"
  /\ Top(editor) # <<>>
  /\ Top(editor)[1].kind = "InsertChar"
  /\ Top(editor)[1].c = "b"

\* What two presses of the delete-line chord key leave, from editor e whose
\* cursor line k exists: line k removed, re-insert-line(k, content) pushed,
\* no chord pending, and an immediately following undo restoring the buffer.
TwoPressesDeleteLine(e) ==
  LET k == Abs(e)
      d1 == DeleteLine(e)
      b1 == bounds(d1.ed)
      d2 == DeleteLine(b1.ed)
      b2 == bounds(d2.ed)
      u == Undo(b2.ed)
  IN  /\ ~d1.panic /\ ~b1.panic /\ ~d2.panic
      /\ d2.ed.lines = RemoveAt(e.lines, k)
      /\ d2.ed.undo = Append(e.undo, InsertLine(k, e.lines[k + 1]))
      /\ d2.ed.command_wait = <<>>
      /\ ~b2.panic /\ ~u.panic
      /\ u.ed.lines = e.lines

\* C3: for every non-empty buffer and every existing cursor line k, two
\* presses of the chord key (none pending before the first) remove exactly
\* line k, push re-insert-line(k, content) and clear the pending chord, and
\* an immediately following undo restores the buffer.
C3_TwoPressesDeleteLine ==
  (AtNormalRead /\ LineAtCursor(editor) /\ editor.command_wait = <<>>)
    => TwoPressesDeleteLine(editor)

\* C4: after the bounds recomputation, whenever the buffer is not empty,
\* sv + cursor.row < lineCount().
C4_RowInsideBuffer ==
  (pc = "read" /\ Len(editor.lines) > 0) => Abs(editor) < Len(editor.lines)

\* C5: from the empty buffer with cursor (0,0) and sv = 0, insertLineBelow
\* completes without a fatal error, leaves exactly one empty line and the
\* cursor on it.
C5_InsertLineBelowOnEmpty ==
  [][(pc = "read" /\ editor.lines = <<>> /\ editor.cx = 0 /\ editor.cy = 0
        /\ editor.sv = 0 /\ act' = "InsertLineBelow")
       => (pc' = "bounds" /\ editor'.lines = << <<>> >> /\ Abs(editor') = 0)]_vars

\* C6: with a non-empty buffer and any scroll offset, insertLineBelow inserts
\* one empty line at absolute index cursor.row + sv + 1, afterwards (bounds
\* recomputed) the cursor's absolute line is the index of that line, and the
\* undo stack is unchanged.
C6_InsertLineBelowMovesToNewLine ==
  [][(pc = "read" /\ LineAtCursor(editor) /\ act' = "InsertLineBelow")
       => /\ pc' = "bounds"
          /\ editor'.lines = InsertAt(editor.lines, Abs(editor) + 1, <<>>)
          /\ editor'.undo = editor.undo
          /\ ~bounds(editor').panic
          /\ Abs(bounds(editor').ed) = Abs(editor) + 1]_vars

\* C7: undo applied when the undo stack is empty is a no-op: buffer, cursor,
\* scroll offset, mode, pending chord and undo stack are unchanged, also
\* after the bounds recomputation that follows.
C7_UndoOnEmptyStack ==
  (AtNormalRead /\ editor.undo = <<>>) =>
    LET u == Undo(editor)
        b == bounds(u.ed)
    IN  ~u.panic /\ u.ed = editor /\ ~b.panic /\ b.ed = editor

\* C7 witness: undo has just been applied in a session that has made no
\* editing step, so on an empty stack.
C7_Witness ==
  pc = "bounds" /\ act = "Undo" /\ edits = 0 /\ editor.undo = <<>>
    /\ editor.lines # <<>>

\* C8: MoveUp with cursor.row = 0 and sv > 0 decrements sv by one and leaves
\* cursor.row at 0; with cursor.row = 0 and sv = 0 it changes neither; with
\* cursor.row > 0 it decrements cursor.row and leaves sv; the buffer, and
\* every other field, is unchanged in all three.
C8_MoveUp ==
  AtNormalRead =>
    LET e == editor
        m == MoveUp(e)
    IN  /\ ~m.panic
        /\ (e.cy = 0 /\ e.sv > 0) => m.ed = [e EXCEPT !.sv = e.sv - 1]
        /\ (e.cy = 0 /\ e.sv = 0) => m.ed = e
        /\ e.cy > 0 => m.ed = [e EXCEPT !.cy = e.cy - 1]

\* C8 witness: in a two-row terminal, where only scrolling moves the cursor
\* down, and with no edit made, MoveUp has just brought the scroll offset
\* back to 0 from the top row.
C8_Witness ==
  /\ pc = "bounds"
  /\ act = "MoveUp"
  /\ edits = 0
  /\ editor.size[2] = 2
  /\ Len(editor.lines) = 2
  /\ editor.cy = 0
  /\ editor.sv = 0

\* C9: after the bounds recomputation, cursor.column <= length of the line
\* at cursor.row + sv, an absent line counting as length 0.
C9_ColumnInsideLine ==
  pc = "read" => editor.cx <= current_line_len(editor)

\* C9 witness: the loop is about to recompute the bounds with the column
\* past the end of the cursor's line, after a MoveRight at the end of it.
C9_Witness ==
  /\ pc = "bounds"
  /\ act = "MoveRight"
  /\ LineAtCursor(editor)
  /\ editor.cx > current_line_len(editor)

\* C10: with viewport height h >= 3, after the bounds recomputation the
\* cursor row is inside the viewport and off the status row:
\* cursor.row <= h - 2.
C10_RowAboveStatusLine ==
  (pc = "read" /\ editor.size[2] >= 3) => editor.cy <= editor.size[2] - 2

\* C11: the chord's first 'd', pressed in Normal mode while no chord is
\* pending, sets the pending chord and changes nothing else, without a fatal
\* error, in every reachable state, the empty buffer included.
C11_FirstPressOnlyArms ==
  [][(pc = "read" /\ editor.command_wait = <<>> /\ act' = "DeleteLine")
       => (pc' = "bounds"
             /\ editor' = [editor EXCEPT !.command_wait = <<"d">>])]_vars

\* C12: a pending chord stays pending across every event but 'd' (other
\* Normal-mode keys, moves, undo, Insert mode and its typing); the 'd' that
\* follows deletes exactly one line, the cursor's line at that time, and is
\* the only step that clears the pending chord.
C12_PendingUntilSecondPress ==
  [][(pc = "read" /\ editor.command_wait = <<"d">>)
       => /\ act' # "DeleteLine" => editor'.command_wait = <<"d">>
          /\ act' = "DeleteLine"
               => /\ pc' = "bounds"
                  /\ LineAtCursor(editor)
                  /\ editor'.lines = RemoveAt(editor.lines, Abs(editor))
                  /\ editor'.command_wait = <<>>]_vars

\* A step followed by the next: the panic of the first is kept.
Then(r, F(_)) == IF r.panic THEN r ELSE F(r.ed)

\* An arm applied to the editor a step left, and the bounds recomputation
\* that follows it: one pass of the loop.
Pass(r, F(_)) == Then(Then(r, F), bounds)

\* The destructive operations: deleteCharacter, and the delete-line chord
\* (one press when the chord is pending already, two otherwise).
Chord(e) ==
  IF e.command_wait = <<>> THEN Pass(Pass(Ok(e), DeleteLine), DeleteLine)
  ELSE Pass(Ok(e), DeleteLine)
Destroy(op, e) == IF op = "x" THEN Pass(Ok(e), DeleteChar) ELSE Chord(e)
CanDestroy(op, e) == IF op = "x" THEN CharAtCursor(e) ELSE LineAtCursor(e)

\* The navigation arms, by name.
Navigate(nav, e) ==
  CASE nav = "MoveUp" -> MoveUp(e)
    [] nav = "MoveDown" -> MoveDown(e)
    [] nav = "MoveLeft" -> MoveLeft(e)
    [] nav = "MoveRight" -> MoveRight(e)
    [] nav = "MoveHome" -> MoveHome(e)
    [] nav = "MoveEnd" -> MoveEnd(e)
    [] nav = "PageUp" -> PageUp(e)
    [] nav = "PageDown" -> PageDown(e)
    [] OTHER -> Ok(e)
NavActions ==
  {"MoveUp", "MoveDown", "MoveLeft", "MoveRight", "MoveHome", "MoveEnd",
   "PageUp", "PageDown"}

\* C13 (k = 1 and k = 2): destructive operations separated only by
\* navigation and followed by as many undos are reversed in LIFO order: the
\* first undo restores the buffer and the undo stack as they were before
\* the last operation, the second as they were before the first.
C13_UndoReversesLifo ==
  AtNormalRead =>
    \A op1, op2 \in {"x", "dd"}, nav \in NavActions \cup {"None"} :
      CanDestroy(op1, editor) =>
        LET s1 == Destroy(op1, editor)
            u0 == Pass(s1, Undo)
            n1 == Then(s1, LAMBDA e : Then(Navigate(nav, e), bounds))
            s2 == Then(n1, LAMBDA e : Destroy(op2, e))
            u1 == Pass(s2, Undo)
            u2 == Pass(u1, Undo)
        IN  /\ ~s1.panic /\ ~u0.panic
            /\ u0.ed.lines = editor.lines /\ u0.ed.undo = editor.undo
            /\ (~n1.panic /\ CanDestroy(op2, n1.ed)) =>
                 /\ ~s2.panic /\ ~u1.panic /\ ~u2.panic
                 /\ Len(s2.ed.undo) = Len(editor.undo) + 2
                 /\ u1.ed.lines = n1.ed.lines /\ u1.ed.undo = s1.ed.undo
                 /\ u2.ed.lines = editor.lines /\ u2.ed.undo = editor.undo

\* What typing c and then deleting at the same position leaves, from an
\* Insert-mode editor e: c is typed, Esc pressed, the cursor moved back with
\* MoveLeft, and deleteCharacter applied, the bounds recomputed between.
TypeThenDelete(e, c) ==
  LET typed == Pass(Ok(e), LAMBDA f : Insert(f, c))
      normal == Pass(typed, LAMBDA f : EnterMode(f, "Normal"))
      back == Pass(normal, MoveLeft)
  IN  [typed |-> typed, back |-> back, deleted |-> Then(back, DeleteChar)]

\* The pair returns the buffer to its lines, the deletion being at the
\* column and line of the insertion.
PairRestores(e, c) ==
  LET p == TypeThenDelete(e, c)
  IN  /\ ~p.deleted.panic
      /\ p.back.ed.cx = e.cx
      /\ Abs(p.back.ed) = Abs(e)
      /\ p.typed.ed.lines # e.lines
      /\ p.deleted.ed.lines = e.lines

\* C14 as stated: for every buffer, the empty one included, and every cursor
\* position, insertCharacter followed by deleteCharacter at the same
\* position leaves the buffer's sequence of lines as before the pair.
C14_InsertDeleteAnyBuffer ==
  (pc = "read" /\ ~Normal /\ Abs(editor) <= Len(editor.lines))
    => \A c \in Chars : PairRestores(editor, c)

\* C14 amended: the same, for every cursor position on an existing line.
C14_InsertDeleteOnLine ==
  (pc = "read" /\ ~Normal /\ LineAtCursor(editor))
    => \A c \in Chars : PairRestores(editor, c)

\* C14 witness: a typed character has just been deleted again, two editing
\* steps into the session, and the buffer is the file's again.
C14_Witness ==
  /\ pc = "bounds"
  /\ act = "DeleteChar"
  /\ edits = 2
  /\ Top(editor) # <<>>
  /\ Top(editor)[1] = InsertChar(1, 1, "x")
  /\ editor.sv = 1
  /\ editor.lines = << <<"a", "b">>, <<"c">> >>

\* C15: MoveDown increments the cursor row only if a line exists at
\* absolute index cy + sv + 1; with the cursor on the last line it neither
\* increments the row nor, through the scroll branch, the scroll offset.
C15_MoveDownNeedsNextLine ==
  [][(pc = "read" /\ act' = "MoveDown")
       => /\ editor'.cy = editor.cy + 1
            => Abs(editor) + 1 < Len(editor.lines)
          /\ Abs(editor) + 1 = Len(editor.lines)
            => (editor'.cy <= editor.cy /\ editor'.sv <= editor.sv)]_vars

\* What replaying the top entry of the undo stack needs in order not to
\* panic: the column within the line for a re-insert-character entry, the
\* index within the buffer for a re-insert-line entry.
Replayable(e) ==
  \/ Top(e) = <<>>
  \/ LET u == Top(e)[1]
     IN  IF u.kind = "InsertChar"
         THEN get(e.lines, u.y) = <<>> \/ u.x <= Len(get(e.lines, u.y)[1])
         ELSE u.line <= Len(e.lines)

\* C16: in every reachable state Undo completes without a fatal error, also
\* after non-undoable edits: the entry replayed addresses a column within
\* its line, or an index within the buffer.
C16_UndoNeverPanics ==
  [][(pc = "read" /\ act' = "Undo")
       => (pc' = "bounds" /\ Replayable(editor))]_vars

\* The lines after character c is put at column x of line y (counted from
\* 0), the line being there or being the one appended after the last.
WithChar(lines, x, y, c) ==
  LET grown == IF y = Len(lines) THEN Append(lines, <<>>) ELSE lines
  IN  [grown EXCEPT ![y + 1] = InsertAt(grown[y + 1], x, c)]

\* C17: insertCharacter, the column being within the current line, puts the
\* character at the cursor's column of the line at cy + sv, advances the
\* column by exactly one and changes no other line nor the undo stack; with
\* cy + sv = lineCount() the buffer first grows by one empty line, which
\* takes the character.
C17_InsertCharacter ==
  (pc = "read" /\ ~Normal /\ Abs(editor) <= Len(editor.lines)
     /\ editor.cx <= current_line_len(editor))
    => \A c \in Chars :
         LET r == Insert(editor, c)
         IN  /\ ~r.panic
             /\ r.ed = [editor EXCEPT
                          !.lines = WithChar(editor.lines, editor.cx,
                                             Abs(editor), c),
                          !.cx = editor.cx + 1]

\* C17 witness: a character has just been typed at the end of the second
\* line of a buffer scrolled by one line.
C17_Witness ==
  /\ pc = "bounds"
  /\ act = "Insert"
  /\ editor.sv = 1
  /\ editor.cx = 2
  /\ editor.lines = << <<"a", "b">>, <<"c", "x">> >>

KeepsScroll == NavActions \ {"MoveUp", "MoveDown"}

\* C18: in every reachable state the navigation actions leave the buffer,
\* the undo stack, the mode and the pending chord unchanged; they change
\* only the cursor and the scroll offset, and all but MoveUp and MoveDown
\* leave the scroll offset unchanged.
C18_NavigationFrame ==
  pc = "read"
    => \A nav \in NavActions :
         LET r == Navigate(nav, editor)
         IN  /\ ~r.panic
             /\ r.ed = [editor EXCEPT !.cx = r.ed.cx, !.cy = r.ed.cy,
                                      !.sv = r.ed.sv]
             /\ nav \in KeepsScroll => r.ed.sv = editor.sv

\* C18 witness: PageDown has just moved the cursor of a scrolled editor that
\* holds an undo entry and a pending chord.
C18_Witness ==
  /\ pc = "bounds"
  /\ act = "PageDown"
  /\ editor.sv = 1
  /\ editor.cy = editor.size[2] - 2
  /\ editor.cy > 0
  /\ editor.undo # <<>>
  /\ editor.command_wait = <<"d">>

\* The editor that pressing key k leaves, before the bounds are recomputed;
\* a key without action, and Quit, leave it as it is.
After(e, k) ==
  LET a == handle_event(e, k)
  IN  IF a = <<>> THEN Ok(e) ELSE RunAction(a[1], e)

\* Whether, from lines l to lines m, a line that was there gained a
\* character, no line being added or removed.
LineGrew(l, m) ==
  /\ Len(m) = Len(l)
  /\ \E i \in 1..Len(l) : Len(m[i]) > Len(l[i])

\* The state `run` is entered in.
Started == pc = "bounds" /\ act = "None"

\* The mode part of C19: the mode starts as Normal, Normal becomes Insert
\* only on 'i' and Insert becomes Normal only on Esc; in Insert mode a
\* character key resolves to the insert-character action alone, which does
\* not quit, leaves the pending chord, the undo stack and the mode as they
\* are, and removes nothing from the buffer.
ModeDiscipline ==
  /\ Started => Normal
  /\ pc = "read" =>
       \A k \in Keys :
         LET a == handle_event(editor, k)
             r == After(editor, k)
         IN  /\ r.ed.mode # editor.mode
                  => \/ Normal /\ k = "i"
                     \/ ~Normal /\ k = "Esc"
             /\ (~Normal /\ k \in CharKeys)
                  => /\ a = <<Action("Insert", k)>>
                     /\ r.ed = [editor EXCEPT !.lines = r.ed.lines,
                                              !.cx = r.ed.cx]
                     /\ Len(r.ed.lines) >= Len(editor.lines)
                     /\ \A i \in 1..Len(editor.lines) :
                          Len(r.ed.lines[i]) >= Len(editor.lines[i])

\* C19 as stated: the mode discipline, and in Normal mode no key inserts a
\* character into an existing line.
C19_ModesAndNoNormalInsert ==
  /\ ModeDiscipline
  /\ (pc = "read" /\ Normal) =>
       \A k \in Keys : ~LineGrew(editor.lines, After(editor, k).ed.lines)

\* C19 amended: the mode discipline, and in Normal mode no key but 'u'
\* inserts a character into an existing line; 'u' does so exactly when the
\* entry it replays is a re-insert-character entry.
C19_ModesAndOnlyUndoInserts ==
  /\ ModeDiscipline
  /\ (pc = "read" /\ Normal) =>
       \A k \in Keys :
         LineGrew(editor.lines, After(editor, k).ed.lines)
           => /\ k = "u"
              /\ Top(editor) # <<>>
              /\ Top(editor)[1].kind = "InsertChar"

\* C19 witness: in Insert mode the key 'x' has just been typed in front of
\* the first line's characters, with nothing deleted and nothing pushed on
\* the undo stack.
C19_Witness ==
  /\ pc = "bounds"
  /\ act = "Insert"
  /\ ~Normal
  /\ editor.undo = <<>>
  /\ editor.command_wait = <<>>
  /\ editor.lines = << <<"x", "a", "b">>, <<"c">> >>

\* C20: with a viewport height of 2 or more (a terminal of 3 rows or more),
\* the scroll offset never exceeds the number of lines of the buffer, after
\* any sequence of moves, page moves, insertions, deletions and undos.
C20_ScrollWithinBuffer ==
  (pc \in {"read", "bounds"} /\ editor.size[2] - 1 >= 2)
    => editor.sv <= Len(editor.lines)

=============================================================================
